---- MODULE Spec2Model ----
(***************************************************************************)
(* A model of src/ipl_scorecard.py: the stat counters, Player, Team, the   *)
(* over calculator, ScoreCard with its mutation API, the Matches registry  *)
(* and the ScoreEntryParser dispatcher.                                    *)
(*                                                                         *)
(* Python objects live in a heap: `teams` and `players` map object         *)
(* identities to their fields, and every reference (a roster entry, the    *)
(* striker, the batting team) is an identity or None.  A Python exception  *)
(* is modelled by the field `err` of the program state an operator         *)
(* returns: the statements executed before the raise have taken effect,    *)
(* those after it have not.                                                *)
(***************************************************************************)
EXTENDS Integers, Sequences, FiniteSets, TLC

VARIABLES
    instance,   \* Matches._instance: None or the singleton
    matches,    \* Matches.matches: match_id -> ScoreCard fields (a dict)
    teams,      \* heap of Team objects: team identity -> Team fields
    players,    \* heap of Player objects: sequence, identity = index
    last,       \* the last call made: its name, match, exception and result
    nops,       \* number of calls made so far
    base,       \* the program state a scripted run started in
    script,     \* per match, the calls a scripted run makes, in order
    pos         \* per match, how many calls of its script were made

vars == <<instance, matches, teams, players, last, nops, base, script, pos>>

---------------------------------------------------------------------------
(* Bounds of the model *)

\* calls made in a run of Spec
MaxOps == 3
\* longest stream of a match in a scripted run
MaxStream == 2

---------------------------------------------------------------------------
(* Values *)

\* the null reference; object identities and over lengths are never negative
None == -1
NoErr == "none"

MatchIds == {"M1", "M2"}
TeamIds == {1, 2, 3, 4}
\* the Team objects the setup phase builds for a match
TeamsOf(m) == IF m = "M1" THEN {1, 2} ELSE {3, 4}
HomeTeam(m) == IF m = "M1" THEN 1 ELSE 3
AwayTeam(m) == IF m = "M1" THEN 2 ELSE 4

EmptyDict == [k \in {} |-> 0]

\* the dictionary d with d[k] = v
DictSet(d, k, v) == [x \in DOMAIN d \cup {k} |-> IF x = k THEN v ELSE d[x]]

RECURSIVE SumDict(_)
SumDict(d) ==
    IF DOMAIN d = {} THEN 0
    ELSE LET k == CHOOSE x \in DOMAIN d : TRUE
         IN d[k] + SumDict([x \in DOMAIN d \ {k} |-> d[x]])

RECURSIVE SumSeq(_)
SumSeq(s) == IF s = <<>> THEN 0 ELSE Head(s) + SumSeq(Tail(s))

---------------------------------------------------------------------------
(* Stat counters, Player, Team: constructors *)

BattingBehaviour ==
    [runs_scored |-> 0, balls_faced |-> 0, boundaries |-> EmptyDict]

boundary_types == {4, 6}

BowlingBehaviour ==
    [wickets_taken |-> 0, runs_accumulated |-> 0, balls_done |-> 0,
     wides |-> 0, no_balls |-> 0]

Player(name) ==
    [name |-> name, batting_behaviour |-> BattingBehaviour,
     bowling_behaviour |-> BowlingBehaviour]

Team == [players |-> <<>>, extras |-> EmptyDict, runs_scored |-> 0, wickets |-> 0]

ScoreCard ==
    [balls_per_over |-> None, batting_team |-> None, bowling_team |-> None,
     striker |-> None, non_striker |-> None, current_bowler |-> None,
     balls |-> 0]

---------------------------------------------------------------------------
(* Program states and exceptions.  A program state S is a record with the  *)
(* registry, the two heaps, the pending exception and the value returned.  *)

NoRet == [kind |-> "None"]
Raise(S, e) == [S EXCEPT !.err = e]
Return(S, v) == [S EXCEPT !.ret = v]
Failed(S) == S.err # NoErr

\* S when an exception is pending or the receiver is None (the attribute
\* access on None raises), otherwise the effect T of the call
On(S, obj, T) ==
    IF Failed(S) THEN S
    ELSE IF obj = None THEN Raise(S, "AttributeError")
    ELSE T

---------------------------------------------------------------------------
(* BattingBehaviour and BowlingBehaviour; p is a Player identity *)

Batting_add_run(S, p, run) ==
    On(S, p,
       LET s1 == [S EXCEPT !.players[p].batting_behaviour.runs_scored = @ + run,
                           !.players[p].batting_behaviour.balls_faced = @ + 1]
           b == s1.players[p].batting_behaviour.boundaries
       IN IF run \in boundary_types
          THEN IF run \in DOMAIN b
               THEN [s1 EXCEPT !.players[p].batting_behaviour.boundaries =
                                   DictSet(b, run, b[run] + 1)]
               ELSE Raise(s1, "KeyError")
          ELSE s1)

Bowling_add_ball(S, p) ==
    On(S, p, [S EXCEPT !.players[p].bowling_behaviour.balls_done = @ + 1])

Bowling_add_wicket(S, p) ==
    On(S, p, [S EXCEPT !.players[p].bowling_behaviour.wickets_taken = @ + 1])

Bowling_add_run(S, p, run) ==
    On(S, p, [S EXCEPT !.players[p].bowling_behaviour.runs_accumulated = @ + run])

\* add_extra that adds the runs of a wide or a no-ball to runs_accumulated
\* a second time
Bowling_add_extra_Twice(S, p, extra_type, run) ==
    On(S, p,
       LET s1 == IF extra_type = "wides"
                 THEN [S EXCEPT !.players[p].bowling_behaviour.wides = @ + run,
                                !.players[p].bowling_behaviour.runs_accumulated = @ + run]
                 ELSE IF extra_type = "noballs"
                 THEN [S EXCEPT !.players[p].bowling_behaviour.no_balls = @ + run,
                                !.players[p].bowling_behaviour.runs_accumulated = @ + run]
                 ELSE S
       IN Bowling_add_run(s1, p, run))

Bowling_add_extra(S, p, extra_type, run) ==
    On(S, p,
       LET s1 == IF extra_type = "wides"
                 THEN [S EXCEPT !.players[p].bowling_behaviour.wides = @ + run]
                 ELSE IF extra_type = "noballs"
                 THEN [S EXCEPT !.players[p].bowling_behaviour.no_balls = @ + run]
                 ELSE S
       IN Bowling_add_run(s1, p, run))

\* calculate_economy that answers 0 for a bowler with no legal ball
calculate_economy_ZeroForNoBalls(S, p) ==
    On(S, p,
       LET b == S.players[p].bowling_behaviour
       IN Return(S, [kind |-> "economy", num |-> b.runs_accumulated,
                     den |-> IF b.balls_done = 0 THEN 1 ELSE b.balls_done]))

\* runs_accumulated / balls_done, kept as the pair of the true division
calculate_economy(S, p) ==
    On(S, p,
       LET b == S.players[p].bowling_behaviour
       IN IF b.balls_done = 0 THEN Raise(S, "ZeroDivisionError")
          ELSE Return(S, [kind |-> "economy", num |-> b.runs_accumulated,
                          den |-> b.balls_done]))

---------------------------------------------------------------------------
(* Team; t is a Team identity *)

\* add_player(Player(name)): a new Player object is appended to the roster
Team_add_player(S, t, name) ==
    On(S, t,
       LET p == Len(S.players) + 1
       IN [S EXCEPT !.players = Append(@, Player(name)),
                    !.teams[t].players = Append(@, p)])

Team_add_run(S, t, run) ==
    On(S, t, [S EXCEPT !.teams[t].runs_scored = @ + run])

Team_add_extras(S, t, extra_type, run) ==
    On(S, t,
       LET e == S.teams[t].extras
       IN IF extra_type \notin DOMAIN e
          THEN [S EXCEPT !.teams[t].extras = DictSet(e, extra_type, run)]
          ELSE [S EXCEPT !.teams[t].extras = DictSet(e, extra_type, e[extra_type] + run)])

Team_add_wicket(S, t) ==
    On(S, t, [S EXCEPT !.teams[t].wickets = @ + 1])

---------------------------------------------------------------------------
(* Over calculator *)

SixBallOverCalculator_calculate(balls) ==
    [kind |-> "overs", overs |-> balls \div 6, balls |-> balls % 6]

\* the identity of the one SixBallOverCalculator object a call makes
SixBallOverCalculator == 1

\* the calculator selected, or None when the function falls off its end
get_over_calculator(num_balls) ==
    IF num_balls = 6 THEN SixBallOverCalculator ELSE None

---------------------------------------------------------------------------
(* ScoreCard; m is the key of the ScoreCard object in the registry *)

ScoreCard_set_balls_per_over(S, m, balls) ==
    IF Failed(S) THEN S ELSE [S EXCEPT !.matches[m].balls_per_over = balls]

ScoreCard_set_batting_team(S, m, batting_team) ==
    IF Failed(S) THEN S ELSE [S EXCEPT !.matches[m].batting_team = batting_team]

ScoreCard_set_bowling_team(S, m, bowling_team) ==
    IF Failed(S) THEN S ELSE [S EXCEPT !.matches[m].bowling_team = bowling_team]

ScoreCard_add_run(S, m, run) ==
    LET sc == S.matches[m]
        s1 == Team_add_run(S, sc.batting_team, run)
        s2 == Batting_add_run(s1, sc.striker, run)
        s3 == Bowling_add_run(s2, sc.current_bowler, run)
    IN Bowling_add_ball(s3, sc.current_bowler)

\* add_extra that also counts the delivery as a legal ball of the bowler
ScoreCard_add_extra_CountsBall(S, m, extra_type, run) ==
    LET sc == S.matches[m]
        s1 == Team_add_extras(S, sc.batting_team, extra_type, run)
        s2 == Team_add_extras(s1, sc.bowling_team, extra_type, run)
        s3 == Team_add_run(s2, sc.batting_team, run)
        s4 == Bowling_add_extra(s3, sc.current_bowler, extra_type, run)
    IN Bowling_add_ball(s4, sc.current_bowler)

ScoreCard_add_extra(S, m, extra_type, run) ==
    LET sc == S.matches[m]
        s1 == Team_add_extras(S, sc.batting_team, extra_type, run)
        s2 == Team_add_extras(s1, sc.bowling_team, extra_type, run)
        s3 == Team_add_run(s2, sc.batting_team, run)
    IN Bowling_add_extra(s3, sc.current_bowler, extra_type, run)

\* add_wicket that also brings the non-striker on strike
ScoreCard_add_wicket_NextBatter(S, m) ==
    LET sc == S.matches[m]
        s1 == Team_add_wicket(S, sc.batting_team)
        s2 == Team_add_wicket(s1, sc.bowling_team)
        s3 == Bowling_add_wicket(s2, sc.current_bowler)
    IN IF Failed(s3) THEN s3 ELSE [s3 EXCEPT !.matches[m].striker = sc.non_striker]

ScoreCard_add_wicket(S, m) ==
    LET sc == S.matches[m]
        s1 == Team_add_wicket(S, sc.batting_team)
        s2 == Team_add_wicket(s1, sc.bowling_team)
    IN Bowling_add_wicket(s2, sc.current_bowler)

ScoreCard_add_ball(S, m) ==
    IF Failed(S) THEN S
    ELSE LET s1 == [S EXCEPT !.matches[m].balls = @ + 1]
         IN Bowling_add_ball(s1, s1.matches[m].current_bowler)

ScoreCard_get_overs(S, m) ==
    LET over_calculator == get_over_calculator(S.matches[m].balls_per_over)
    IN On(S, over_calculator,
          Return(S, SixBallOverCalculator_calculate(S.matches[m].balls)))

\* one lookup loop of set_current_players: every roster entry of the name is
\* assigned in turn, so the last one stays; cur stays when there is none
LookupLoop(S, roster, name, cur) ==
    LET hits == {i \in 1..Len(roster) : S.players[roster[i]].name = name}
    IN IF hits = {} THEN cur
       ELSE roster[CHOOSE i \in hits : \A j \in hits : j <= i]

ScoreCard_set_current_players(S, m, striker_name, non_striker_name, bowler_name) ==
    LET sc == S.matches[m]
        s1 == On(S, sc.batting_team,
                 [S EXCEPT !.matches[m].striker =
                     LookupLoop(S, S.teams[sc.batting_team].players, striker_name, @)])
        s2 == On(s1, sc.batting_team,
                 [s1 EXCEPT !.matches[m].non_striker =
                     LookupLoop(S, S.teams[sc.batting_team].players, non_striker_name, @)])
    IN On(s2, sc.bowling_team,
          [s2 EXCEPT !.matches[m].current_bowler =
              LookupLoop(S, S.teams[sc.bowling_team].players, bowler_name, @)])

\* Player.__repr__ and Team.__repr__; None prints as None
Player_repr(S, p) == IF p = None THEN NoRet ELSE S.players[p]

Team_repr(S, t) ==
    IF t = None THEN NoRet
    ELSE [runs_scored |-> S.teams[t].runs_scored,
          wickets |-> S.teams[t].wickets,
          extras |-> S.teams[t].extras,
          players |-> [i \in 1..Len(S.teams[t].players) |->
                          Player_repr(S, S.teams[t].players[i])]]

\* __repr__: the projection handed to the caller; only get_overs can raise
ScoreCard_repr(S, m) ==
    LET sc == S.matches[m]
        s1 == ScoreCard_get_overs(S, m)
        Obj(heap, ref) == Player_repr(S, ref)
    IN IF Failed(s1) THEN s1
       ELSE Return(s1, [kind |-> "snapshot",
                        batting_team |-> Team_repr(S, sc.batting_team),
                        bowling_team |-> Team_repr(S, sc.bowling_team),
                        striker |-> Obj(S.players, sc.striker),
                        non_striker |-> Obj(S.players, sc.non_striker),
                        bowler |-> Obj(S.players, sc.current_bowler),
                        overs |-> s1.ret])

---------------------------------------------------------------------------
(* Matches: the registry *)

\* Matches() that empties the registry on every construction
Matches_new_Resets(S) ==
    IF Failed(S) THEN S
    ELSE [S EXCEPT !.instance = 1, !.matches = EmptyDict]

\* Matches(): the first construction makes the singleton and an empty dict
Matches_new(S) ==
    IF Failed(S) THEN S
    ELSE IF S.instance = None
    THEN [S EXCEPT !.instance = 1, !.matches = EmptyDict]
    ELSE S

\* get_scorecard that stores a new ScoreCard on every call
Matches_get_scorecard_Replaces(S, match_id) ==
    IF Failed(S) THEN S
    ELSE [S EXCEPT !.matches = DictSet(@, match_id, ScoreCard)]

\* a ScoreCard object is truthy, so an entry that exists is returned
Matches_get_scorecard(S, match_id) ==
    IF Failed(S) THEN S
    ELSE IF match_id \in DOMAIN S.matches
    THEN S
    ELSE [S EXCEPT !.matches = DictSet(@, match_id, ScoreCard)]

---------------------------------------------------------------------------
(* Run calculators.  run_info is the dictionary make_dict builds from a    *)
(* row: every field is the text of a CSV cell.                             *)

IntLiterals == {"0", "1", "2", "4", "6"}

\* int(text) for the texts of IntLiterals; any other text raises ValueError
int(text) ==
    CASE text = "0" -> 0
      [] text = "1" -> 1
      [] text = "2" -> 2
      [] text = "4" -> 4
      [] text = "6" -> 6

\* match() of a calculator: the exception it raises, else its verdict
Verdict(b) == [err |-> NoErr, val |-> b]
Raised(e) == [err |-> e, val |-> FALSE]

NormalRunCalculator_match(run_info) ==
    IF run_info.runs_off_bat \notin IntLiterals THEN Raised("ValueError")
    ELSE Verdict(int(run_info.runs_off_bat) > 0)

NormalRunCalculator_calculate_run(S, m, run_info) ==
    ScoreCard_add_run(S, m, int(run_info.runs_off_bat))

ExtraRunCalculator_match(run_info) ==
    IF run_info.extras \notin IntLiterals THEN Raised("ValueError")
    ELSE Verdict(int(run_info.extras) > 0)

extra_types == <<"wides", "noballs", "byes", "legbyes", "penalty">>

\* the loop of calculate_run from its i-th extra type on
RECURSIVE ExtraLoop(_, _, _, _)
ExtraLoop(S, m, run_info, i) ==
    IF Failed(S) \/ i > Len(extra_types) THEN S
    ELSE LET extra_type == extra_types[i]
             text == run_info[extra_type]
         IN IF text = "" THEN ExtraLoop(S, m, run_info, i + 1)
            ELSE IF text \notin IntLiterals THEN Raise(S, "ValueError")
            ELSE ExtraLoop(ScoreCard_add_extra(S, m, extra_type, int(text)),
                           m, run_info, i + 1)

ExtraRunCalculator_calculate_run(S, m, run_info) ==
    ExtraLoop(S, m, run_info, 1)

WicketCalculator_match(run_info) ==
    Verdict(run_info.wicket_type # "")

WicketCalculator_calculate_run(S, m, run_info) ==
    ScoreCard_add_wicket(S, m)

\* one turn of the loop of parse: match, and calculate_run when it matched
RunCalculatorTurn(S, verdict, T) ==
    IF Failed(S) THEN S
    ELSE IF verdict.err # NoErr THEN Raise(S, verdict.err)
    ELSE IF verdict.val THEN T
    ELSE S

\* ScoreEntryParser.parse from the row's dictionary on: make_dict, which decodes
\* the row, is a stub in the source, and its result run_info is the input here
ScoreEntryParser_parse(S, run_info) ==
    LET m == run_info.match_id
        s0 == Matches_get_scorecard(Matches_new(S), m)
        s1 == RunCalculatorTurn(s0, NormalRunCalculator_match(run_info),
                                NormalRunCalculator_calculate_run(s0, m, run_info))
        s2 == RunCalculatorTurn(s1, ExtraRunCalculator_match(run_info),
                                ExtraRunCalculator_calculate_run(s1, m, run_info))
        s3 == RunCalculatorTurn(s2, WicketCalculator_match(run_info),
                                WicketCalculator_calculate_run(s2, m, run_info))
    IN IF Failed(s3) THEN s3 ELSE ScoreCard_repr(s3, m)

---------------------------------------------------------------------------
(* Inputs *)

Runs == {0, 1, 4, 6}
ExtraAmounts == {1, 2}
ExtraTypeInputs == {"wides", "noballs", "byes"}
OverLengths == {6, 5}
RosterNames == {"A", "B", "X"}
\* "Z" is on no roster
LookupNames == RosterNames \cup {"Z"}

RunInfo(m, r, e, wd, nb, by, wk) ==
    [match_id |-> m, runs_off_bat |-> r, extras |-> e, wides |-> wd,
     noballs |-> nb, byes |-> by, legbyes |-> "", penalty |-> "",
     wicket_type |-> wk]

\* the rows of the feed: dot ball, single, four, wide, no-ball, bye, wicket,
\* a bye with a run or a four and a run out, and rows with a cell that is no
\* integer
Rows(m) ==
    { RunInfo(m, "0", "0", "", "", "", ""),
      RunInfo(m, "1", "0", "", "", "", ""),
      RunInfo(m, "4", "0", "", "", "", ""),
      RunInfo(m, "0", "1", "1", "", "", ""),
      RunInfo(m, "0", "1", "", "1", "", ""),
      RunInfo(m, "0", "1", "", "", "1", ""),
      RunInfo(m, "0", "0", "", "", "", "bowled"),
      RunInfo(m, "1", "1", "", "", "1", "run out"),
      RunInfo(m, "4", "1", "", "", "1", "run out"),
      RunInfo(m, "0", "0", "1", "", "", ""),
      RunInfo(m, "x", "0", "", "", "", ""),
      RunInfo(m, "", "0", "", "", "", "bowled"),
      RunInfo(m, "1", "x", "", "", "", ""),
      RunInfo(m, "0", "1", "x", "", "", ""),
      RunInfo(m, "0", "2", "1", "", "x", "") }

---------------------------------------------------------------------------
(* The state machine *)

\* the program state the variables hold, with no exception pending
Cur ==
    [instance |-> instance, matches |-> matches, teams |-> teams,
     players |-> players, err |-> NoErr, ret |-> NoRet]

\* the call `op` on match m with arguments arg ended in program state S
Commit(S, op, m, arg) ==
    /\ instance' = S.instance
    /\ matches' = S.matches
    /\ teams' = S.teams
    /\ players' = S.players
    /\ last' = [op |-> op, m |-> m, arg |-> arg, err |-> S.err, ret |-> S.ret]
    /\ nops' = nops + 1

NoArg == [none |-> TRUE]

Fresh ==
    /\ instance = None
    /\ matches = EmptyDict
    /\ teams = [t \in TeamIds |-> Team]
    /\ players = <<>>
    /\ last = [op |-> "init", m |-> "", arg |-> NoArg, err |-> NoErr, ret |-> NoRet]
    /\ nops = 0

\* the registry and the heaps of a program state
World(S) ==
    [instance |-> S.instance, matches |-> S.matches, teams |-> S.teams,
     players |-> S.players]

Init ==
    /\ Fresh
    /\ base = World(Cur)
    /\ script = [m \in MatchIds |-> <<>>]
    /\ pos = [m \in MatchIds |-> 0]

\* the setup phase of a match, as the caller runs it: the scorecard, its over
\* length and teams, the rosters A, B and X, and the opening participants
SetupCalls(S, m, balls) ==
    LET s1 == Matches_get_scorecard(Matches_new(S), m)
        s2 == ScoreCard_set_balls_per_over(s1, m, balls)
        s3 == ScoreCard_set_batting_team(s2, m, HomeTeam(m))
        s4 == ScoreCard_set_bowling_team(s3, m, AwayTeam(m))
        s5 == Team_add_player(s4, HomeTeam(m), "A")
        s6 == Team_add_player(s5, HomeTeam(m), "B")
        s7 == Team_add_player(s6, AwayTeam(m), "X")
    IN ScoreCard_set_current_players(s7, m, "A", "B", "X")

SetupMatch(m) ==
    /\ nops < MaxOps
    /\ m \notin DOMAIN matches
    /\ \E balls \in OverLengths :
          Commit(SetupCalls(Cur, m, balls), "setup", m, [balls |-> balls])
    /\ UNCHANGED <<base, script, pos>>

GetScorecard(m) ==
    /\ nops < MaxOps
    /\ Commit(Matches_get_scorecard(Matches_new(Cur), m), "get_scorecard", m, NoArg)
    /\ UNCHANGED <<base, script, pos>>

SetBallsPerOver(m) ==
    /\ nops < MaxOps
    /\ m \in DOMAIN matches
    /\ \E balls \in OverLengths :
          Commit(ScoreCard_set_balls_per_over(Cur, m, balls), "set_balls_per_over",
                 m, [balls |-> balls])
    /\ UNCHANGED <<base, script, pos>>

SetBattingTeam(m) ==
    /\ nops < MaxOps
    /\ m \in DOMAIN matches
    /\ \E t \in TeamsOf(m) :
          Commit(ScoreCard_set_batting_team(Cur, m, t), "set_batting_team", m,
                 [team |-> t])
    /\ UNCHANGED <<base, script, pos>>

SetBowlingTeam(m) ==
    /\ nops < MaxOps
    /\ m \in DOMAIN matches
    /\ \E t \in TeamsOf(m) :
          Commit(ScoreCard_set_bowling_team(Cur, m, t), "set_bowling_team", m,
                 [team |-> t])
    /\ UNCHANGED <<base, script, pos>>

AddPlayer(m) ==
    /\ nops < MaxOps
    /\ \E t \in TeamsOf(m), name \in RosterNames :
          Commit(Team_add_player(Cur, t, name), "add_player", m,
                 [team |-> t, name |-> name])
    /\ UNCHANGED <<base, script, pos>>

SetCurrentPlayers(m) ==
    /\ nops < MaxOps
    /\ m \in DOMAIN matches
    /\ \E s \in LookupNames, n \in {"B", "Z"}, b \in {"X", "Z"} :
          Commit(ScoreCard_set_current_players(Cur, m, s, n, b),
                 "set_current_players", m,
                 [striker |-> s, non_striker |-> n, bowler |-> b])
    /\ UNCHANGED <<base, script, pos>>

AddRun(m) ==
    /\ nops < MaxOps
    /\ m \in DOMAIN matches
    /\ \E run \in Runs :
          Commit(ScoreCard_add_run(Cur, m, run), "add_run", m, [run |-> run])
    /\ UNCHANGED <<base, script, pos>>

AddExtra(m) ==
    /\ nops < MaxOps
    /\ m \in DOMAIN matches
    /\ \E extra_type \in ExtraTypeInputs, run \in ExtraAmounts :
          Commit(ScoreCard_add_extra(Cur, m, extra_type, run), "add_extra", m,
                 [extra_type |-> extra_type, run |-> run])
    /\ UNCHANGED <<base, script, pos>>

AddWicket(m) ==
    /\ nops < MaxOps
    /\ m \in DOMAIN matches
    /\ Commit(ScoreCard_add_wicket(Cur, m), "add_wicket", m, NoArg)
    /\ UNCHANGED <<base, script, pos>>

AddBall(m) ==
    /\ nops < MaxOps
    /\ m \in DOMAIN matches
    /\ Commit(ScoreCard_add_ball(Cur, m), "add_ball", m, NoArg)
    /\ UNCHANGED <<base, script, pos>>

GetOvers(m) ==
    /\ nops < MaxOps
    /\ m \in DOMAIN matches
    /\ Commit(ScoreCard_get_overs(Cur, m), "get_overs", m, NoArg)
    /\ UNCHANGED <<base, script, pos>>

Snapshot(m) ==
    /\ nops < MaxOps
    /\ m \in DOMAIN matches
    /\ Commit(ScoreCard_repr(Cur, m), "snapshot", m, NoArg)
    /\ UNCHANGED <<base, script, pos>>

\* calculate_economy of the current bowler of match m
CalculateEconomy(m) ==
    /\ nops < MaxOps
    /\ m \in DOMAIN matches
    /\ matches[m].current_bowler # None
    /\ Commit(calculate_economy(Cur, matches[m].current_bowler),
              "calculate_economy", m, [player |-> matches[m].current_bowler])
    /\ UNCHANGED <<base, script, pos>>

Parse(m) ==
    /\ nops < MaxOps
    /\ \E run_info \in Rows(m) :
          Commit(ScoreEntryParser_parse(Cur, run_info), "parse", m,
                 [run_info |-> run_info])
    /\ UNCHANGED <<base, script, pos>>

Next ==
    \E m \in MatchIds :
        \/ SetupMatch(m)
        \/ GetScorecard(m)
        \/ SetBallsPerOver(m)
        \/ SetBattingTeam(m)
        \/ SetBowlingTeam(m)
        \/ AddPlayer(m)
        \/ SetCurrentPlayers(m)
        \/ AddRun(m)
        \/ AddExtra(m)
        \/ AddWicket(m)
        \/ AddBall(m)
        \/ GetOvers(m)
        \/ Snapshot(m)
        \/ CalculateEconomy(m)
        \/ Parse(m)

Spec == Init /\ [][Next]_vars

---------------------------------------------------------------------------
(* Scripted runs: each match has a stream of calls, applied in the order   *)
(* of its stream, the streams of the two matches interleaved in any way.   *)

ParseCall(run_info) == [op |-> "parse", run_info |-> run_info]
AddRunCall(run) == [op |-> "add_run", run |-> run]
AddExtraCall(extra_type, run) ==
    [op |-> "add_extra", extra_type |-> extra_type, run |-> run]
AddWicketCall == [op |-> "add_wicket"]
AddBallCall == [op |-> "add_ball"]
SetCurrentPlayersCall(s, n, b) ==
    [op |-> "set_current_players", striker |-> s, non_striker |-> n, bowler |-> b]

\* a call of the stream of match m; the caller of a ScoreCard method gets the
\* ScoreCard from the registry first
ApplyCall(S, m, c) ==
    LET s0 == Matches_get_scorecard(Matches_new(S), m)
    IN CASE c.op = "parse" -> ScoreEntryParser_parse(S, c.run_info)
         [] c.op = "add_run" -> ScoreCard_add_run(s0, m, c.run)
         [] c.op = "add_extra" -> ScoreCard_add_extra(s0, m, c.extra_type, c.run)
         [] c.op = "add_wicket" -> ScoreCard_add_wicket(s0, m)
         [] c.op = "add_ball" -> ScoreCard_add_ball(s0, m)
         [] c.op = "set_current_players" ->
               ScoreCard_set_current_players(s0, m, c.striker, c.non_striker, c.bowler)

\* the program state W with no exception pending: the caller has caught it
Resume(W) ==
    [instance |-> W.instance, matches |-> W.matches, teams |-> W.teams,
     players |-> W.players, err |-> NoErr, ret |-> NoRet]

\* all calls of a stream, one after the other
RECURSIVE RunAll(_, _, _)
RunAll(S, m, calls) ==
    IF calls = <<>> THEN S
    ELSE RunAll(ApplyCall(Resume(S), m, Head(calls)), m, Tail(calls))

\* the calls a stream is made of
StreamCalls(m) ==
    { ParseCall(RunInfo(m, "1", "1", "", "", "1", "run out")),
      ParseCall(RunInfo(m, "0", "1", "1", "", "", "")),
      ParseCall(RunInfo(m, "1", "x", "", "", "", "")),
      AddBallCall }

Streams(m) ==
    UNION { [1..n -> StreamCalls(m)] : n \in 0..MaxStream }

\* the scenario of the over count: two scoring strokes of A off X, a wide, a
\* ball, a wicket, B coming in as striker, a ball
Scenario(r1, r2, w) ==
    << AddRunCall(r1), AddRunCall(r2), AddExtraCall("wides", w), AddBallCall,
       AddWicketCall, SetCurrentPlayersCall("B", "A", "X"), AddBallCall >>

Scenarios == { Scenario(r1, r2, w) : r1 \in {1, 2}, r2 \in {4, 6}, w \in {1, 2} }

\* M1 is set up with six-ball overs; M2 is set up with five-ball overs, or
\* has had no setup when its first row arrives
InitScript ==
    /\ last = [op |-> "init", m |-> "", arg |-> NoArg, err |-> NoErr, ret |-> NoRet]
    /\ nops = 0
    /\ \E two \in BOOLEAN :
          LET s0 == [instance |-> None, matches |-> EmptyDict,
                     teams |-> [t \in TeamIds |-> Team], players |-> <<>>,
                     err |-> NoErr, ret |-> NoRet]
              s1 == SetupCalls(s0, "M1", 6)
              s2 == IF two THEN SetupCalls(s1, "M2", 5) ELSE s1
          IN /\ instance = s2.instance
             /\ matches = s2.matches
             /\ teams = s2.teams
             /\ players = s2.players
             /\ base = World(s2)
    /\ script \in [MatchIds -> Streams("M1") \cup Streams("M2") \cup Scenarios]
    /\ script["M1"] \in Streams("M1") \cup Scenarios
    /\ script["M2"] \in Streams("M2")
    /\ pos = [m \in MatchIds |-> 0]

RunScript(m) ==
    /\ pos[m] < Len(script[m])
    /\ LET c == script[m][pos[m] + 1]
       IN Commit(ApplyCall(Cur, m, c), c.op, m, c)
    /\ pos' = [pos EXCEPT ![m] = @ + 1]
    /\ UNCHANGED <<base, script>>

NextScript == \E m \in MatchIds : RunScript(m)

SpecScript == InitScript /\ [][NextScript]_vars

ScriptDone == \A m \in MatchIds : pos[m] = Len(script[m])

---------------------------------------------------------------------------
(* Reading the state *)

\* the roster of Team t as the sequence of its Player objects' fields
Roster(t) == [i \in 1..Len(teams[t].players) |-> players[teams[t].players[i]]]

NamesOn(t) == {Roster(t)[i].name : i \in 1..Len(teams[t].players)}

\* the Player of that name on the roster of t (the rosters read have one)
Named(t, name) ==
    Roster(t)[CHOOSE i \in 1..Len(teams[t].players) : Roster(t)[i].name = name]

BattersRuns(t) ==
    SumSeq([i \in 1..Len(teams[t].players) |-> Roster(t)[i].batting_behaviour.runs_scored])

TeamsIn(m) == {matches[m].batting_team, matches[m].bowling_team} \ {None}

\* the step just taken was the call op on match m
Called(op, m) == last'.op = op /\ last'.m = m /\ nops' = nops + 1

---------------------------------------------------------------------------
(* C1 *)

\* C1: for each of the two Teams of every ScoreCard, after every call, the
\* team's runs_scored is the sum of the runs_scored of the batting stats of the
\* players on its roster plus the sum of the values of its extras ledger.
C1_TeamTotalIsBattersPlusExtras ==
    \A m \in DOMAIN matches : \A t \in TeamsIn(m) :
        teams[t].runs_scored = BattersRuns(t) + SumDict(teams[t].extras)

---------------------------------------------------------------------------
(* C2 *)

\* C2: with six-ball overs, striker A and bowler X, after add_run(1),
\* add_run(4), add_extra('wides', 1), add_ball(), add_wicket(),
\* set_current_players with striker B and add_ball(): X has 2 legal balls, the
\* batting team has 6 runs and 1 wicket, A has 5 runs and one boundary of 4.
C2_ScenarioOutcome ==
    (script["M1"] = Scenario(1, 4, 1) /\ pos["M1"] = Len(script["M1"])) =>
        LET sc == matches["M1"]
            A == Named(sc.batting_team, "A")
            X == Named(sc.bowling_team, "X")
        IN /\ sc.balls_per_over = 6
           /\ X.bowling_behaviour.balls_done = 2
           /\ teams[sc.batting_team].runs_scored = 6
           /\ teams[sc.batting_team].wickets = 1
           /\ A.batting_behaviour.runs_scored = 5
           /\ A.batting_behaviour.boundaries = DictSet(EmptyDict, 4, 1)

---------------------------------------------------------------------------
(* C3 *)

ScoreCardMutations == {"add_run", "add_extra", "add_wicket", "add_ball"}

---------------------------------------------------------------------------
(* C4 *)

\* what match m owns: its ScoreCard, its Teams and the Players on their rosters
MatchState(W, m) ==
    [card |-> IF m \in DOMAIN W.matches THEN W.matches[m] ELSE ScoreCard,
     present |-> m \in DOMAIN W.matches,
     teams |-> [t \in TeamsOf(m) |-> W.teams[t]],
     players |-> [t \in TeamsOf(m) |->
                    [i \in 1..Len(W.teams[t].players) |->
                        W.players[W.teams[t].players[i]]]]]

\* all of M1's stream, then all of M2's, from the state the run started in
Consecutive ==
    World(RunAll(RunAll(Resume(base), "M1", script["M1"]), "M2", script["M2"]))

\* once both streams are through, whatever the interleaving was, the state is
\* the one the consecutive run ends in
InterleavingEndsAsConsecutive ==
    ScriptDone => World(Cur) = Consecutive

\* a call of one match, raising or not, changes nothing the other match owns
OtherMatchUntouched ==
    \A m \in MatchIds :
        (last'.m # m /\ nops' = nops + 1) =>
            MatchState(World(Cur)', m) = MatchState(World(Cur), m)

\* C4: match isolation: any interleaving of the streams of M1 and M2 ends in
\* the state that all of M1's calls followed by all of M2's end in, and no call
\* of one match (raising or not) changes a field of the other match's scorecard.
C4_MatchIsolation ==
    /\ [](InterleavingEndsAsConsecutive)
    /\ [][OtherMatchUntouched]_vars

\* both streams are through, M2's calls were made between M1's, M1's last
\* call raised, and both matches have changed since the run started
C4_Witness ==
    /\ ScriptDone
    /\ Len(script["M1"]) = 2 /\ Len(script["M2"]) = 2
    /\ last.m = "M1" /\ last.err = "ValueError"
    /\ MatchState(World(Cur), "M1") # MatchState(base, "M1")
    /\ MatchState(World(Cur), "M2") # MatchState(base, "M2")
    /\ script["M1"][1] # script["M1"][2]

---------------------------------------------------------------------------
(* C5 *)

\* C5: add_player is idempotent by name: a roster never holds two entries of
\* one name.
C5_OneRosterEntryPerName ==
    \A t \in TeamIds :
        \A i, j \in 1..Len(teams[t].players) :
            Roster(t)[i].name = Roster(t)[j].name => i = j

---------------------------------------------------------------------------
(* C6 *)

\* the call names a player who is not on the roster it is looked up in
UnknownPlayer(m, arg) ==
    \/ arg.striker \notin NamesOn(matches[m].batting_team)
    \/ arg.non_striker \notin NamesOn(matches[m].batting_team)
    \/ arg.bowler \notin NamesOn(matches[m].bowling_team)

Participants(sc) == <<sc.striker, sc.non_striker, sc.current_bowler>>

\* C6: set_current_players with a name that is not on the roster of its team
\* raises, and changes none of the three current participants.
C6_UnknownPlayerRejected ==
    [][\A m \in DOMAIN matches :
          ( /\ Called("set_current_players", m)
            /\ matches[m].batting_team # None
            /\ matches[m].bowling_team # None
            /\ UnknownPlayer(m, last'.arg) ) =>
                /\ last'.err # NoErr
                /\ Participants(matches'[m]) = Participants(matches[m])]_vars

---------------------------------------------------------------------------
(* C7 *)

\* a run or extra cell of the row holds text that is no integer
Malformed(run_info) ==
    \/ run_info.runs_off_bat \notin IntLiterals \cup {""}
    \/ run_info.extras \notin IntLiterals \cup {""}
    \/ \E i \in 1..Len(extra_types) :
          run_info[extra_types[i]] \notin IntLiterals \cup {""}

\* C7: a row with a non-integer run or extra cell is rejected wholesale: parse
\* raises and the scorecard, its teams and its players are as before.
C7_MalformedRejectedWhole ==
    [][\A m \in DOMAIN matches :
          (Called("parse", m) /\ Malformed(last'.arg.run_info)) =>
                /\ last'.err # NoErr
                /\ MatchState(World(Cur)', m) = MatchState(World(Cur), m)]_vars

---------------------------------------------------------------------------
(* C8 *)

\* C8: a row of a match that has no ScoreCard in the registry raises, changes
\* no scorecard and adds no entry to the registry.
C8_UnknownMatchSurfaced ==
    [][\A m \in MatchIds \ DOMAIN matches :
          Called("parse", m) =>
                /\ last'.err # NoErr
                /\ matches' = matches
                /\ teams' = teams
                /\ players' = players]_vars

---------------------------------------------------------------------------
(* C9 *)

\* C9: the over policy selected for the balls_per_over of a ScoreCard is never
\* an absent handler, and get_overs on a ScoreCard whose balls_per_over is
\* missing or unsupported raises.
C9_NoAbsentOverPolicy ==
    /\ \A m \in DOMAIN matches :
          get_over_calculator(matches[m].balls_per_over) # None
    /\ (last.op = "get_overs" /\ matches[last.m].balls_per_over \notin {6}) =>
          last.err # NoErr

---------------------------------------------------------------------------
(* C10 *)

\* C10: get_overs on a ScoreCard configured with L >= 1 balls per over returns
\* (balls div L, balls mod L) for its ball counter.
C10_OversAreDivMod ==
    \A m \in DOMAIN matches :
        LET L == matches[m].balls_per_over
            b == matches[m].balls
        IN (last.op = "get_overs" /\ last.m = m /\ L >= 1) =>
              /\ last.err = NoErr
              /\ last.ret.overs = b \div L
              /\ last.ret.balls = b % L
              /\ last.ret.balls \in 0..(L - 1)
              /\ last.ret.overs * L + last.ret.balls = b

---------------------------------------------------------------------------
(* C11 *)

\* the bowler a calculate_economy call was made on
EconomyBowler == players[last.arg.player].bowling_behaviour

\* the answer of the call just made, by the bowler's legal balls
EconomyAnswer ==
    last.op = "calculate_economy" =>
        IF EconomyBowler.balls_done = 0
        THEN last.err = "ZeroDivisionError" /\ last.ret = NoRet
        ELSE /\ last.err = NoErr
             /\ last.ret = [kind |-> "economy",
                            num |-> EconomyBowler.runs_accumulated,
                            den |-> EconomyBowler.balls_done]

\* the call stores nothing
EconomyStoresNothing ==
    \A m \in DOMAIN matches :
        Called("calculate_economy", m) =>
            /\ matches' = matches
            /\ teams' = teams
            /\ players' = players

\* C11: calculate_economy on a bowler with 0 legal balls raises and returns no
\* value, whatever his runs conceded; with legal balls > 0 it returns runs
\* conceded / legal balls; it stores nothing.
C11_EconomyUndefinedWithoutBalls ==
    /\ [](EconomyAnswer)
    /\ [][EconomyStoresNothing]_vars

\* the call was made on a bowler who has conceded only a wide
C11_Witness ==
    /\ last.op = "calculate_economy"
    /\ last.err = "ZeroDivisionError"
    /\ EconomyBowler.balls_done = 0
    /\ EconomyBowler.wides = 1
    /\ EconomyBowler.runs_accumulated = 1

---------------------------------------------------------------------------
(* A reader beside the writer: the statements of one mutation of a         *)
(* ScoreCard are applied one at a time, and a client may read __repr__ of   *)
(* the ScoreCard between any two of them.  The source takes no lock.        *)

\* the statements of a ScoreCard mutation, each named by its source line
StatementLines(c) ==
    CASE c.op = "add_run" -> <<167, 168, 169, 170>>
      [] c.op = "add_extra" -> <<173, 174, 175, 176>>
      [] c.op = "add_wicket" -> <<179, 180, 181>>
      [] c.op = "add_ball" -> <<184, 185>>

Statements(c) ==
    [i \in 1..Len(StatementLines(c)) |->
        [op |-> "statement", line |-> StatementLines(c)[i], call |-> c]]

\* the statement of source line st.line of the call st.call on ScoreCard m
ApplyStatement(S, m, st) ==
    LET sc == S.matches[m]
        c == st.call
    IN CASE st.line = 167 -> Team_add_run(S, sc.batting_team, c.run)
         [] st.line = 168 -> Batting_add_run(S, sc.striker, c.run)
         [] st.line = 169 -> Bowling_add_run(S, sc.current_bowler, c.run)
         [] st.line = 170 -> Bowling_add_ball(S, sc.current_bowler)
         [] st.line = 173 -> Team_add_extras(S, sc.batting_team, c.extra_type, c.run)
         [] st.line = 174 -> Team_add_extras(S, sc.bowling_team, c.extra_type, c.run)
         [] st.line = 175 -> Team_add_run(S, sc.batting_team, c.run)
         [] st.line = 176 ->
               Bowling_add_extra(S, sc.current_bowler, c.extra_type, c.run)
         [] st.line = 179 -> Team_add_wicket(S, sc.batting_team)
         [] st.line = 180 -> Team_add_wicket(S, sc.bowling_team)
         [] st.line = 181 -> Bowling_add_wicket(S, sc.current_bowler)
         [] st.line = 184 -> [S EXCEPT !.matches[m].balls = @ + 1]
         [] st.line = 185 -> Bowling_add_ball(S, sc.current_bowler)

MutationCalls ==
    {AddRunCall(run) : run \in Runs}
        \cup {AddExtraCall(t, run) : t \in ExtraTypeInputs, run \in ExtraAmounts}
        \cup {AddWicketCall, AddBallCall}

\* both matches are set up with six-ball overs; each has one mutation to apply
InitReader ==
    /\ last = [op |-> "init", m |-> "", arg |-> NoArg, err |-> NoErr, ret |-> NoRet]
    /\ nops = 0
    /\ LET s0 == [instance |-> None, matches |-> EmptyDict,
                  teams |-> [t \in TeamIds |-> Team], players |-> <<>>,
                  err |-> NoErr, ret |-> NoRet]
           s2 == SetupCalls(SetupCalls(s0, "M1", 6), "M2", 6)
       IN /\ instance = s2.instance
          /\ matches = s2.matches
          /\ teams = s2.teams
          /\ players = s2.players
          /\ base = World(s2)
    /\ script \in [MatchIds -> {Statements(c) : c \in MutationCalls}]
    /\ pos = [m \in MatchIds |-> 0]

\* the writer of match m executes the next statement of its mutation; a raise
\* ends the mutation
Statement(m) ==
    /\ pos[m] < Len(script[m])
    /\ LET st == script[m][pos[m] + 1]
           S == ApplyStatement(Cur, m, st)
       IN /\ Commit(S, "statement", m, st)
          /\ pos' = [pos EXCEPT ![m] = IF Failed(S) THEN Len(script[m]) ELSE @ + 1]
    /\ UNCHANGED <<base, script>>

\* a client reads the snapshot of match m
ReadSnapshot(m) ==
    /\ LET S == ScoreCard_repr(Cur, m)
       IN last' = [op |-> "snapshot", m |-> m, arg |-> NoArg, err |-> S.err,
                   ret |-> S.ret]
    /\ UNCHANGED <<instance, matches, teams, players, nops, base, script, pos>>

NextReader == \E m \in MatchIds : Statement(m) \/ ReadSnapshot(m)

SpecReader == InitReader /\ [][NextReader]_vars

\* the statements of a mutation, run to the end, are the mutation
StatementsMakeTheCall ==
    ScriptDone =>
        World(Cur) =
            World(ApplyCall(Resume(ApplyCall(Resume(base), "M1", script["M1"][1].call)),
                            "M2", script["M2"][1].call))

---------------------------------------------------------------------------
(* C12 *)

\* the snapshot of match m in program state W
SnapshotIn(W, m) == ScoreCard_repr(Resume(W), m).ret

\* C12: a snapshot read while a mutation of the same ScoreCard is applied shows
\* the state before the whole mutation or the state after it, never a state in
\* between.
C12_SnapshotSeesWholeEvents ==
    last.op = "snapshot" =>
        \/ last.ret = SnapshotIn(base, last.m)
        \/ last.ret =
              SnapshotIn(ApplyCall(Resume(base), last.m, script[last.m][1].call),
                         last.m)

---------------------------------------------------------------------------
(* C13 *)

OnRoster(t, p) == t # None /\ p # None /\ \E i \in 1..Len(teams[t].players) : teams[t].players[i] = p

\* the match has begun and its three participants are entries of the rosters
\* of its current teams
ParticipantsValid(m) ==
    /\ OnRoster(matches[m].batting_team, matches[m].striker)
    /\ OnRoster(matches[m].batting_team, matches[m].non_striker)
    /\ OnRoster(matches[m].bowling_team, matches[m].current_bowler)

\* C13: once a match has begun, after every later call striker and non_striker
\* are non-null entries of the current batting team's roster and current_bowler
\* is a non-null entry of the current bowling team's roster.
C13_ParticipantsStayOnRosters ==
    [][\A m \in DOMAIN matches :
          ParticipantsValid(m) => ParticipantsValid(m)']_vars

---------------------------------------------------------------------------
(* C14 *)

\* the match is in play: two different teams, participants on their rosters
InPlay(m) ==
    /\ ParticipantsValid(m)
    /\ matches[m].batting_team # matches[m].bowling_team

\* the amount of an extra cell; an empty cell carries nothing
Amount(text) == IF text = "" THEN 0 ELSE int(text)

ExtrasOf(run_info) ==
    SumSeq([i \in 1..Len(extra_types) |-> Amount(run_info[extra_types[i]])])

\* a row whose cells are integers and whose extras cell is the sum of its
\* extra categories
WellFormed(run_info) ==
    /\ ~Malformed(run_info)
    /\ run_info.runs_off_bat # "" /\ run_info.extras # ""
    /\ ExtrasOf(run_info) = int(run_info.extras)

\* C14: parse applies every matching mutation once and does not stop after the
\* first: a row with runs off bat r, extras e and a wicket (w = 1) or none
\* (w = 0) raises the batting team's total by r + e, the striker's runs by r,
\* the bowler's runs conceded by r + e, and the wickets of both teams and of
\* the bowler by w; a row matching nothing changes none of them.
C14_DispatchAppliesEveryMatch ==
    [][\A m \in DOMAIN matches :
          (Called("parse", m) /\ InPlay(m) /\ WellFormed(last'.arg.run_info)) =>
              LET sc == matches[m]
                  run_info == last'.arg.run_info
                  r == int(run_info.runs_off_bat)
                  e == int(run_info.extras)
                  w == IF run_info.wicket_type # "" THEN 1 ELSE 0
                  bowler == sc.current_bowler
              IN /\ teams'[sc.batting_team].runs_scored =
                        teams[sc.batting_team].runs_scored + r + e
                 /\ players'[sc.striker].batting_behaviour.runs_scored =
                        players[sc.striker].batting_behaviour.runs_scored + r
                 /\ players'[bowler].bowling_behaviour.runs_accumulated =
                        players[bowler].bowling_behaviour.runs_accumulated + r + e
                 /\ teams'[sc.batting_team].wickets = teams[sc.batting_team].wickets + w
                 /\ teams'[sc.bowling_team].wickets = teams[sc.bowling_team].wickets + w
                 /\ players'[bowler].bowling_behaviour.wickets_taken =
                        players[bowler].bowling_behaviour.wickets_taken + w]_vars

---------------------------------------------------------------------------
(* C15 *)

\* the delivery of the row is legal: it carries no wide and no no-ball
LegalDelivery(run_info) == run_info.wides = "" /\ run_info.noballs = ""

\* C15: parse of one row advances the ball counter of the match and the
\* balls_done of the current bowler by exactly 1 when the delivery is legal,
\* whichever calculators matched and also when none did (dot ball), and by
\* exactly 0 when the row carries a wide or a no-ball.
C15_DispatchCountsLegalBall ==
    [][\A m \in DOMAIN matches :
          (Called("parse", m) /\ InPlay(m) /\ WellFormed(last'.arg.run_info)) =>
              LET bowler == matches[m].current_bowler
                  n == IF LegalDelivery(last'.arg.run_info) THEN 1 ELSE 0
              IN /\ matches'[m].balls = matches[m].balls + n
                 /\ players'[bowler].bowling_behaviour.balls_done =
                        players[bowler].bowling_behaviour.balls_done + n]_vars

---------------------------------------------------------------------------
(* C16 *)

\* the count of boundaries of n in a boundaries dictionary
Bucket(b, n) == IF n \in DOMAIN b THEN b[n] ELSE 0

\* C16: add_run(n), also for n = 4 and n = 6 and for a striker who has not
\* scored, completes without error and adds n to the batting team's total, n
\* to the striker's runs, 1 to the striker's balls faced, 1 to the striker's
\* bucket of n when n is 4 or 6 (no bucket changes otherwise), n to the
\* bowler's runs conceded and 1 to the bowler's legal balls; the striker's runs
\* are at least 4 * fours + 6 * sixes.
C16_AddRunCreditsEveryone ==
    [][\A m \in DOMAIN matches :
          (Called("add_run", m) /\ InPlay(m)) =>
              LET sc == matches[m]
                  n == last'.arg.run
                  bat == players[sc.striker].batting_behaviour
                  bat2 == players'[sc.striker].batting_behaviour
                  bowl == players[sc.current_bowler].bowling_behaviour
                  bowl2 == players'[sc.current_bowler].bowling_behaviour
              IN /\ last'.err = NoErr
                 /\ teams'[sc.batting_team].runs_scored =
                        teams[sc.batting_team].runs_scored + n
                 /\ bat2.runs_scored = bat.runs_scored + n
                 /\ bat2.balls_faced = bat.balls_faced + 1
                 /\ \A k \in boundary_types :
                        Bucket(bat2.boundaries, k) =
                            Bucket(bat.boundaries, k) + (IF k = n THEN 1 ELSE 0)
                 /\ bowl2.runs_accumulated = bowl.runs_accumulated + n
                 /\ bowl2.balls_done = bowl.balls_done + 1
                 /\ bat2.runs_scored >=
                        4 * Bucket(bat2.boundaries, 4) + 6 * Bucket(bat2.boundaries, 6)]_vars

---------------------------------------------------------------------------
(* C17 *)

\* the ScoreCard has two different teams and a current bowler
Bowling(m) ==
    /\ matches[m].batting_team # None
    /\ matches[m].bowling_team # None
    /\ matches[m].batting_team # matches[m].bowling_team
    /\ matches[m].current_bowler # None

\* the extras ledger e with n more under the category
Credited(e, category, n) ==
    DictSet(e, category, (IF category \in DOMAIN e THEN e[category] ELSE 0) + n)

\* C17: add_extra(category, n) changes exactly this: n more under the category
\* in the extras ledger of the batting and of the bowling team, n more in the
\* batting team's total, n more, once, in the current bowler's runs conceded,
\* and n more in the bowler's wides (no_balls) when the category is wides
\* (noballs); balls_done, the match ball counter, the bowling team's total, all
\* wickets, the batting stats and every other object are unchanged.
C17_AddExtraFrame ==
    [][\A m \in DOMAIN matches :
          (Called("add_extra", m) /\ Bowling(m)) =>
              LET sc == matches[m]
                  category == last'.arg.extra_type
                  n == last'.arg.run
                  bowler == sc.current_bowler
                  bowl == players[bowler].bowling_behaviour
              IN /\ last'.err = NoErr
                 /\ matches' = matches
                 /\ teams' = [teams EXCEPT
                       ![sc.batting_team] =
                           [@ EXCEPT !.extras = Credited(@, category, n),
                                     !.runs_scored = @ + n],
                       ![sc.bowling_team] =
                           [@ EXCEPT !.extras = Credited(@, category, n)]]
                 /\ players' = [players EXCEPT ![bowler].bowling_behaviour =
                       [bowl EXCEPT
                           !.runs_accumulated = @ + n,
                           !.wides = @ + (IF category = "wides" THEN n ELSE 0),
                           !.no_balls = @ + (IF category = "noballs" THEN n ELSE 0)]]]_vars

\* a second wide of two runs has been added: 3 under wides in both ledgers, 3
\* wides and 3 runs conceded for the bowler, who has no legal ball
C17_Witness ==
    /\ last.op = "add_extra" /\ last.err = NoErr
    /\ last.arg.extra_type = "wides" /\ last.arg.run = 2
    /\ last.m \in DOMAIN matches
    /\ Bowling(last.m)
    /\ LET sc == matches[last.m]
           bowl == players[sc.current_bowler].bowling_behaviour
       IN /\ teams[sc.batting_team].extras = DictSet(EmptyDict, "wides", 3)
          /\ teams[sc.bowling_team].extras = DictSet(EmptyDict, "wides", 3)
          /\ teams[sc.batting_team].runs_scored = 3
          /\ bowl.wides = 3 /\ bowl.runs_accumulated = 3 /\ bowl.balls_done = 0

---------------------------------------------------------------------------
(* C18 *)

\* add_wicket adds 1 to the wickets of both teams and to the bowler's
\* wickets_taken and changes nothing else
AddWicketFrame ==
    \A m \in DOMAIN matches :
        (Called("add_wicket", m) /\ Bowling(m)) =>
            LET sc == matches[m]
            IN /\ last'.err = NoErr
               /\ matches' = matches
               /\ teams' = [teams EXCEPT ![sc.batting_team].wickets = @ + 1,
                                         ![sc.bowling_team].wickets = @ + 1]
               /\ players' = [players EXCEPT
                     ![sc.current_bowler].bowling_behaviour.wickets_taken = @ + 1]

\* the striker of a ScoreCard changes in set_current_players only
StrikerSetByCaller ==
    \A m \in DOMAIN matches :
        matches'[m].striker # matches[m].striker => Called("set_current_players", m)

\* C18: add_wicket() adds exactly 1 to the batting team's wickets, the bowling
\* team's wickets and the current bowler's wickets_taken and leaves striker,
\* non_striker, current_bowler, all run totals, the extras ledgers and the ball
\* counters unchanged; the striker changes only through set_current_players.
C18_AddWicketFrame ==
    [][AddWicketFrame /\ StrikerSetByCaller]_vars

\* a wicket has fallen after a run was scored: both teams and the bowler have
\* one wicket and the striker is who scored the run
C18_Witness ==
    /\ last.op = "add_wicket" /\ last.err = NoErr
    /\ last.m \in DOMAIN matches
    /\ Bowling(last.m)
    /\ LET sc == matches[last.m]
       IN /\ sc.striker # None
          /\ teams[sc.batting_team].wickets = 1
          /\ teams[sc.bowling_team].wickets = 1
          /\ players[sc.current_bowler].bowling_behaviour.wickets_taken = 1
          /\ teams[sc.batting_team].runs_scored = 1
          /\ players[sc.striker].batting_behaviour.runs_scored = 1

---------------------------------------------------------------------------
(* C19 *)

\* get_scorecard(id) through a Matches() handle: the first call stores a new
\* ScoreCard under id, a later call stores nothing
GetScorecardCreatesOnce ==
    \A id \in MatchIds :
        Called("get_scorecard", id) =>
            /\ last'.err = NoErr
            /\ matches' = IF id \in DOMAIN matches THEN matches
                          ELSE DictSet(matches, id, ScoreCard)
            /\ teams' = teams
            /\ players' = players

\* no step removes an entry or puts a new ScoreCard in the place of one that
\* has state, and a step that creates an entry changes no other entry
EntriesLive ==
    /\ DOMAIN matches \subseteq DOMAIN matches'
    /\ \A id \in DOMAIN matches :
          /\ matches[id] # ScoreCard => matches'[id] # ScoreCard
          /\ DOMAIN matches' # DOMAIN matches => matches'[id] = matches[id]

\* C19: registry entries are created once: the first get_scorecard(id) creates
\* the ScoreCard of id, every later get_scorecard(id), through any Matches()
\* handle, finds that ScoreCard with its accumulated state; an entry is never
\* replaced or reset, and creating the entry of one id never changes the entry
\* of another id.
C19_EntriesCreatedOnce ==
    [][GetScorecardCreatesOnce /\ EntriesLive]_vars

\* get_scorecard on the entry of a set-up match with one ball bowled, which it
\* has found as it was
C19_Witness ==
    /\ last.op = "get_scorecard" /\ last.err = NoErr
    /\ last.m \in DOMAIN matches
    /\ matches[last.m].balls = 1
    /\ matches[last.m].balls_per_over = 6
    /\ matches[last.m].current_bowler # None
    /\ players[matches[last.m].current_bowler].bowling_behaviour.balls_done = 1

---------------------------------------------------------------------------
(* C20 *)

\* the runs a ScoreCard mutation applies
Applied(call) ==
    IF call.op \in {"add_run", "add_extra"} THEN call.arg.run ELSE 0

\* a mutation of a match in play adds what it applies to the current bowler's
\* runs conceded and to the batting team's total alike
ConcededIsApplied ==
    \A m \in DOMAIN matches :
        (last'.op \in ScoreCardMutations /\ Called(last'.op, m) /\ InPlay(m)) =>
            LET sc == matches[m]
            IN /\ players'[sc.current_bowler].bowling_behaviour.runs_accumulated =
                      players[sc.current_bowler].bowling_behaviour.runs_accumulated
                          + Applied(last')
               /\ teams'[sc.batting_team].runs_scored =
                      teams[sc.batting_team].runs_scored + Applied(last')

WidesAndNoBallsConceded ==
    \A p \in 1..Len(players) :
        players[p].bowling_behaviour.wides + players[p].bowling_behaviour.no_balls
            <= players[p].bowling_behaviour.runs_accumulated

\* C20: every bowler's runs conceded is the sum of the runs off bat and of all
\* extras applied while he was the current bowler, so wides + no_balls <=
\* runs conceded for every bowler, and the runs conceded by all bowlers add up
\* to the runs added to the batting team.
C20_BowlingLedgerConsistent ==
    /\ [](WidesAndNoBallsConceded)
    /\ [][ConcededIsApplied]_vars

====
